---- MODULE Spec2Model ----
(***************************************************************************)
(* Model of compute/web-process-image.go: the admission handler            *)
(* (imagemagickHandler.ServeHTTP), the bounded channel it feeds, and the   *)
(* pool of imageProcessor goroutines that drain it.                        *)
(*                                                                         *)
(* Strings are sequences of one-character strings, so that path.Split,     *)
(* strings.Trim and filepath.Ext are computed and not assumed.             *)
(* The channel is a buffered Go channel (queueSize >= 1, as in main): a    *)
(* FIFO buffer on which a send proceeds iff there is room. The pool has up *)
(* to NumImageProcessors goroutines, the number main starts.               *)
(***************************************************************************)
EXTENDS Integers, Sequences, FiniteSets, TLC

VARIABLES
    queueSize,    \* NewImagemagickHandler's queueSize: cap(c)
    numRoutines,  \* NewImagemagickHandler's numRoutines
    i,            \* loop counter of NewImagemagickHandler
    serving,      \* TRUE once main has registered h and listens
    alive,        \* FALSE once an unrecovered panic has ended the process
    c,            \* the channel buffer: requests sent and not yet received
    r,            \* the form of the request most recently served
    w,            \* the responses written, one per ServeHTTP call, in order
    pc,           \* pc[p]: where goroutine p of the pool stands
    cur,          \* cur[p]: the request r of p's loop body
    err,          \* err[p]: the result err of p's processImage call
    files,        \* names of the files existing in the working directory
    dequeued,     \* history: <<p, n>> for every receive from c, in order
    took,         \* number of "Processing took" lines logged
    maxTries,     \* t.maxTries of the RetryTransport
    tPc,          \* where the RoundTrip call stands
    tOrig,        \* history: the request as the caller passed it
    tReq,         \* req of RoundTrip
    tBody,        \* body of RoundTrip: the buffered bytes
    tI,           \* i of RoundTrip
    attempts,     \* history: what each call of the wrapped transport got
    tResp,        \* resp of RoundTrip
    tErr,         \* err of RoundTrip
    aPc,          \* where the getProcessImageReq call stands
    aForm,        \* the form of the request given to getProcessImageReq
    aReq,         \* what getProcessImageReq returned
    rlFn,         \* the relay function that runs: transformImage or worker
    rlPc,         \* where it stands
    rlN,          \* the notification it was given
    rlValues,     \* the form it posts to /process
    rlPostErr,    \* history: PostForm returned an error
    rlResp,       \* resp of PostForm
    rlErr,        \* err of transformImage
    rlW,          \* the status worker wrote to its ResponseWriter (0: none)
    dN,           \* duplicate_files: len(objects); the objects are 1..dN
    dNext,        \* index of the next object the producer sends on c
    dCClosed,     \* c is closed
    dFClosed,     \* f is closed
    dPc,          \* dPc[p]: where copier p stands
    dO,           \* dO[p]: o of duplicateFiles in copier p (0: none)
    dI,           \* dI[p]: i of copyObject in copier p
    dWg,          \* counter of the WaitGroup
    dMain,        \* where main stands
    dHanded,      \* history: dHanded[o], times object o was received from c
    dTries,       \* history: dTries[o], Copy calls made for object o
    dFailed,      \* history: objects for which copyObject returned an error
    dReported,    \* history: dReported[o], times main received o's name on f
    gNext,        \* generate_files: i of the loop of main
    gC,           \* the buffer of c
    gCClosed,     \* c is closed
    gFClosed,     \* f is closed
    gFinClosed,   \* finished is closed
    gPc,          \* gPc[p]: where copier p stands
    gO,           \* gO[p]: o of copyObjects in copier p (0: none)
    gI,           \* gI[p]: i of copyObjects in copier p
    gErr,         \* gErr[p]: err of copyObjects in copier p
    gWg,          \* counter of the WaitGroup
    gMain,        \* where main stands
    gCount,       \* i of the goroutine that counts the copies
    gOnF,         \* history: gOnF[o], reports of request o received on f
    gOnFin,       \* history: gOnFin[o], reports of o received on finished
    gTries        \* history: gTries[o], Copy calls made for request o

tvars == <<maxTries, tPc, tOrig, tReq, tBody, tI, attempts, tResp, tErr>>

pvars == <<queueSize, numRoutines, i, serving, alive, c, r, w, pc, cur, err,
           files, dequeued, took>>

avars == <<aPc, aForm, aReq>>

rvars == <<rlFn, rlPc, rlN, rlValues, rlPostErr, rlResp, rlErr, rlW>>

dvars == <<dN, dNext, dCClosed, dFClosed, dPc, dO, dI, dWg, dMain, dHanded,
           dTries, dFailed, dReported>>

gvars == <<gNext, gC, gCClosed, gFClosed, gFinClosed, gPc, gO, gI, gErr, gWg,
           gMain, gCount, gOnF, gOnFin, gTries>>

\* The two scripts.
svars == <<dvars, gvars>>

xvars == <<avars, rvars, svars>>

vars == <<pvars, tvars, xvars>>

----------------------------------------------------------------------------
(* Bounds of the model.                                                    *)

MaxQueueSize == 2
MaxRequests == 3
MaxTries == 3
MaxIdLen == 5
\* duplicate_files: the most objects a listing holds, and numCopiers (5 in
\* the source).
MaxObjects == 2
DupCopiers == 2
\* generate_files: numCopiers (10 in the source), the capacity of c (999)
\* and numFiles (10000), kept in their order: numFiles - 1 requests are
\* more than the copiers and the buffer hold together.
GenCopiers == 2
GenQueueSize == 1
GenFiles == 6

----------------------------------------------------------------------------
(* Program constants.                                                      *)

NumImageProcessors == 2
ThumbnailSuffix == <<"-", "t">>
hostname == "host"
nil == "nil"
StatusOK == 200
StatusInternalServerError == 500
StatusServiceUnavailable == 503
retryableCodes == {403, 500, 502, 503, 504}

----------------------------------------------------------------------------
(* Strings.                                                                *)

\* strings.LastIndex for a single byte, 1-based; 0 when absent.
LastIndex(s, ch) ==
    LET hits == {k \in 1..Len(s) : s[k] = ch}
    IN  IF hits = {} THEN 0 ELSE CHOOSE k \in hits : \A j \in hits : j <= k

\* path.Split: the split is made right after the final slash.
Split(p) ==
    LET k == LastIndex(p, "/")
    IN  <<SubSeq(p, 1, k), SubSeq(p, k + 1, Len(p))>>

\* strings.Trim(s, "/"): all leading and trailing slashes removed.
Trim(s) ==
    LET keep == {k \in 1..Len(s) : s[k] # "/"}
    IN  IF keep = {} THEN <<>>
        ELSE LET lo == CHOOSE k \in keep : \A j \in keep : k <= j
                 hi == CHOOSE k \in keep : \A j \in keep : j <= k
             IN  SubSeq(s, lo, hi)

Ext_FirstDot(p) ==
    LET sl == LastIndex(p, "/")
        dots == {k \in (sl + 1)..Len(p) : p[k] = "."}
    IN  IF dots = {} THEN <<>>
        ELSE SubSeq(p, CHOOSE k \in dots : \A j \in dots : k <= j, Len(p))

\* filepath.Ext: the suffix beginning at the final dot of the final element.
Ext(p) ==
    LET sl == LastIndex(p, "/")
        dt == LastIndex(p, ".")
    IN  IF dt > sl THEN SubSeq(p, dt, Len(p)) ELSE <<>>

\* (*http.Request).FormValue: the value of the field, "" when there is none.
FormValue(form, key) == IF key \in DOMAIN form THEN form[key] ELSE <<>>

----------------------------------------------------------------------------
(* Requests.                                                               *)

\* The zero processImageReq. Field n is history: the number of the ServeHTTP
\* call that built the request (0 for none).
NoReq == [n |-> 0, sourceBucket |-> <<>>, filename |-> <<>>,
          saveToBucket |-> <<>>, saveToFilename |-> <<>>]

getProcessImageReq_NoIdCheck(form) ==
    LET objectPath == FormValue(form, "id")
        sp == Split(objectPath)
        filename == sp[2]
        extension == Ext(filename)
        name == SubSeq(filename, 1, Len(filename) - Len(extension))
    IN  [err |-> FALSE,
         req |-> [n |-> 0,
                  sourceBucket |-> Trim(sp[1]),
                  filename |-> filename,
                  saveToBucket |-> FormValue(form, "save-to"),
                  saveToFilename |-> name \o ThumbnailSuffix \o extension]]

getProcessImageReq(form) ==
    LET objectPath == FormValue(form, "id")
        sp == Split(objectPath)
        filename == sp[2]
        extension == Ext(filename)
        name == SubSeq(filename, 1, Len(filename) - Len(extension))
    IN  IF objectPath = <<>>
        THEN [err |-> TRUE, req |-> NoReq]
        ELSE [err |-> FALSE,
              req |-> [n |-> 0,
                       sourceBucket |-> Trim(sp[1]),
                       filename |-> filename,
                       saveToBucket |-> FormValue(form, "save-to"),
                       saveToFilename |-> name \o ThumbnailSuffix \o extension]]

\* The forms submitted to /process: a form is a function from the names of
\* the fields it carries to their values.
Form(id, saveTo) == ("id" :> id) @@ ("save-to" :> saveTo)
FormNoId(saveTo) == ("save-to" :> saveTo)
EmptyForm == <<>>

Forms ==
    { Form(<<"b", "/", "o", ".", "j">>, <<"d">>),
      Form(<<"c", "/", "o", ".", "j">>, <<"d">>),
      Form(<<"o", ".", "j">>, <<"d">>),
      Form(<<"b", "/">>, <<"d">>),
      Form(<<>>, <<"d">>),
      FormNoId(<<"d">>),
      EmptyForm }

\* getProcessImageReq on each of the forms, computed once.
Parsed == [form \in Forms |-> getProcessImageReq(form)]

----------------------------------------------------------------------------
(* RetryTransport.                                                         *)

\* A request body is a reader: absent (nil) or holding the bytes not yet
\* read.
NilBody == [isNil |-> TRUE, rest |-> <<>>]
NewReader(b) == [isNil |-> FALSE, rest |-> b]

\* The nil *http.Response.
NilResponse == [StatusCode |-> 0, closed |-> FALSE]

Request(method, url, header, rbody) ==
    [Method |-> method, URL |-> url, Header |-> header, Body |-> rbody]

\* A *url.URL.
URL(scheme, host, upath) == [Scheme |-> scheme, Host |-> host, Path |-> upath]

\* (*url.URL).String: scheme://host/path
String(u) == u.Scheme \o <<":", "/", "/">> \o u.Host \o u.Path

\* url.Parse, as http.NewRequest calls it: the scheme ends at the first
\* colon, the host at the first slash after the two that follow the colon.
Parse(s) ==
    LET colon == CHOOSE k \in 1..Len(s) :
                    s[k] = ":" /\ \A j \in 1..(k - 1) : s[j] # ":"
        rest == SubSeq(s, colon + 3, Len(s))
        sl == {k \in 1..Len(rest) : rest[k] = "/"}
        hostEnd == IF sl = {} THEN Len(rest)
                   ELSE (CHOOSE k \in sl : \A j \in sl : k <= j) - 1
    IN  URL(SubSeq(s, 1, colon - 1), SubSeq(rest, 1, hostEnd),
            SubSeq(rest, hostEnd + 1, Len(rest)))

\* A value of a header is a slice of strings: at names the allocation that
\* made it (0: the caller of RoundTrip), vv holds its elements.
Slice(at, vv) == [at |-> at, vv |-> vv]

\* make([]string, len(vv)) in the copy of req: a slice no request built
\* before holds.
Fresh(req) ==
    1 + (CHOOSE a \in {req.Header[k].at : k \in DOMAIN req.Header} :
            \A k \in DOMAIN req.Header : req.Header[k].at <= a)

\* The requests handed to RoundTrip.
URLs == { URL(<<"s">>, <<"h">>, <<"/", "b", "/", "o">>),
          URL(<<"s">>, <<"h">>, <<>>) }
Headers == { [h |-> Slice(0, <<"v">>)],
             [h |-> Slice(0, <<"v", "w">>), g |-> Slice(0, <<"z">>)] }
Bodies == { NilBody, NewReader(<<>>), NewReader(<<"x">>),
            NewReader(<<"x", "y">>) }
Requests ==
    { Request(m, u, h, b) : m \in {"GET", "POST"}, u \in URLs,
                            h \in Headers, b \in Bodies }

\* What the wrapped transport answers: a response status, or an error and
\* no response (written as status 0).
StatusCodes == {200, 404} \cup retryableCodes
TransportError == 0
Outcomes == {TransportError} \cup StatusCodes

\* The transport is not in use.
TransportIdle ==
    /\ maxTries = 1
    /\ tPc = "idle"
    /\ tOrig = Request("GET", URL(<<"s">>, <<"h">>, <<>>),
                       [h |-> Slice(0, <<"v">>)], NilBody)
    /\ tReq = tOrig
    /\ tBody = <<>>
    /\ tI = 0
    /\ attempts = <<>>
    /\ tResp = NilResponse
    /\ tErr = nil

copyRequest_Alias(req, body) ==
    Request(req.Method, Parse(String(req.URL)), req.Header, NewReader(body))

\* copyRequest: http.NewRequest(req.Method, req.URL.String(),
\* bytes.NewReader(body)), then for every key of req.Header a new slice
\* with the elements of the old one.
copyRequest(req, body) ==
    Request(req.Method, Parse(String(req.URL)),
            [k \in DOMAIN req.Header |->
                Slice(Fresh(req),
                      [j \in 1..Len(req.Header[k].vv) |-> req.Header[k].vv[j]])],
            NewReader(body))

----------------------------------------------------------------------------
(* What is not running.                                                    *)

\* No getProcessImageReq call is followed on its own.
ParseIdle ==
    /\ aPc = "idle"
    /\ aForm = EmptyForm
    /\ aReq = [err |-> FALSE, req |-> NoReq]

\* The relay handles no notification.
RelayIdle ==
    /\ rlFn = "transformImage"
    /\ rlPc = "idle"
    /\ rlN = [BucketName |-> <<>>, ObjectName |-> <<>>]
    /\ rlValues = EmptyForm
    /\ rlPostErr = FALSE
    /\ rlResp = [StatusCode |-> 0, readable |-> FALSE]
    /\ rlErr = nil
    /\ rlW = 0

\* duplicate_files does not run.
DupIdle ==
    /\ dN = 0
    /\ dNext = 1
    /\ dCClosed = FALSE
    /\ dFClosed = FALSE
    /\ dPc = <<>>
    /\ dO = <<>>
    /\ dI = <<>>
    /\ dWg = 0
    /\ dMain = "idle"
    /\ dHanded = <<>>
    /\ dTries = <<>>
    /\ dFailed = {}
    /\ dReported = <<>>

\* generate_files does not run.
GenIdle ==
    /\ gNext = 1
    /\ gC = <<>>
    /\ gCClosed = FALSE
    /\ gFClosed = FALSE
    /\ gFinClosed = FALSE
    /\ gPc = <<>>
    /\ gO = <<>>
    /\ gI = <<>>
    /\ gErr = <<>>
    /\ gWg = 0
    /\ gMain = "idle"
    /\ gCount = 0
    /\ gOnF = <<>>
    /\ gOnFin = <<>>
    /\ gTries = <<>>

ScriptsIdle == DupIdle /\ GenIdle

OthersIdle == ParseIdle /\ RelayIdle /\ ScriptsIdle

----------------------------------------------------------------------------
(* Construction: main and NewImagemagickHandler.                           *)

Init ==
    /\ queueSize \in 1..MaxQueueSize
    /\ numRoutines \in 1..NumImageProcessors
    /\ i = 0
    /\ serving = FALSE
    /\ alive = TRUE
    /\ c = <<>>
    /\ r = EmptyForm
    /\ w = <<>>
    /\ pc = <<>>
    /\ cur = <<>>
    /\ err = <<>>
    /\ files = {}
    /\ dequeued = <<>>
    /\ took = 0
    /\ TransportIdle
    /\ OthersIdle

LoopCond_Inclusive == i <= numRoutines

\* The condition of the loop of NewImagemagickHandler.
LoopCond == i < numRoutines

\* One turn of the loop of NewImagemagickHandler: go p.process().
NewImageProcessor ==
    /\ alive /\ ~serving
    /\ LoopCond
    /\ pc' = Append(pc, "range")
    /\ cur' = Append(cur, NoReq)
    /\ err' = Append(err, nil)
    /\ i' = i + 1
    /\ UNCHANGED <<xvars, tvars, queueSize, numRoutines, serving, alive, c, r, w, files,
                   dequeued, took>>

\* The loop is over: h is returned, registered and served.
ListenAndServe ==
    /\ alive /\ ~serving
    /\ ~LoopCond
    /\ serving' = TRUE
    /\ UNCHANGED <<xvars, tvars, queueSize, numRoutines, i, alive, c, r, w, pc, cur, err,
                   files, dequeued, took>>

----------------------------------------------------------------------------
(* Admission.                                                              *)

Response(code, body) == [code |-> code, body |-> body]

CanSend_OffByOne(ch, cap) == Len(ch) < cap - 1

CanSend_Inclusive(ch, cap) == Len(ch) <= cap

CanSend_Always(ch, cap) == TRUE

\* A send on a buffered channel can proceed iff there is room in the buffer.
CanSend(ch, cap) == Len(ch) < cap

Select_NoDefault(req) ==
    /\ CanSend(c, queueSize)
    /\ c' = Append(c, req)
    /\ w' = Append(w, Response(StatusOK, "hostname=" \o hostname))

Select_SwappedStatus(req) ==
    IF CanSend(c, queueSize)
    THEN /\ c' = Append(c, req)
         /\ w' = Append(w, Response(StatusServiceUnavailable, ""))
    ELSE /\ w' = Append(w, Response(StatusOK, "hostname=" \o hostname))
         /\ c' = c

\* select { case h.c <- req: Fprintf(w, "hostname=%s", hostname)
\*          default: w.WriteHeader(503) }
Select(req) ==
    IF CanSend(c, queueSize)
    THEN /\ c' = Append(c, req)
         /\ w' = Append(w, Response(StatusOK, "hostname=" \o hostname))
    ELSE /\ w' = Append(w, Response(StatusServiceUnavailable, ""))
         /\ c' = c

\* The handler run on one request.
ServeHTTP(form) ==
    /\ alive /\ serving
    /\ r' = form
    /\ LET res == Parsed[form]
       IN  IF res.err
           THEN /\ w' = Append(w, Response(StatusInternalServerError, ""))
                /\ c' = c
           ELSE Select([res.req EXCEPT !.n = Len(w) + 1])
    /\ UNCHANGED <<xvars, tvars, queueSize, numRoutines, i, serving, alive, pc, cur, err,
                   files, dequeued, took>>

----------------------------------------------------------------------------
(* The pool: imageProcessor.process and processImage.                      *)

Procs == 1..Len(pc)

Deferred_InputLate(p, at) ==
    CASE at = "WriteFile" -> {}
      [] at = "convert"   -> {}
      [] OTHER            -> {cur[p].filename, cur[p].saveToFilename}

Deferred_NoOutput(p, at) ==
    CASE at = "WriteFile" -> {}
      [] OTHER            -> {cur[p].filename}

\* What the deferred calls registered so far remove when processImage ends.
Deferred(p, at) ==
    CASE at = "WriteFile" -> {}
      [] at = "convert"   -> {cur[p].filename}
      [] OTHER            -> {cur[p].filename, cur[p].saveToFilename}

\* processImage returns e to the loop of process. With e = nil the loop
\* logs the duration and comes back to the range; otherwise it first logs
\* "Could not process image".
Return(p, at, fs, e) ==
    /\ files' = fs \ Deferred(p, at)
    /\ err' = [err EXCEPT ![p] = e]
    /\ alive' = alive
    /\ IF e = nil
       THEN /\ pc' = [pc EXCEPT ![p] = "range"]
            /\ cur' = [cur EXCEPT ![p] = NoReq]
            /\ took' = took + 1
       ELSE /\ pc' = [pc EXCEPT ![p] = "Printf"]
            /\ UNCHANGED <<cur, took>>

\* An unrecovered panic in a goroutine: the deferred calls run, then the
\* process exits.
Panic(p, at, fs, e) ==
    /\ files' = fs \ Deferred(p, at)
    /\ err' = [err EXCEPT ![p] = e]
    /\ pc' = [pc EXCEPT ![p] = "panic"]
    /\ alive' = FALSE
    /\ UNCHANGED <<cur, took>>

Recv_Peek(p) ==
    /\ alive
    /\ pc[p] = "range"
    /\ c # <<>>
    /\ cur' = [cur EXCEPT ![p] = Head(c)]
    /\ c' = c
    /\ dequeued' = Append(dequeued, <<p, Head(c).n>>)
    /\ pc' = [pc EXCEPT ![p] = "getImageBytes"]
    /\ UNCHANGED <<xvars, tvars, queueSize, numRoutines, i, serving, alive, r, w, err,
                   files, took>>

Recv_Last(p) ==
    /\ alive
    /\ pc[p] = "range"
    /\ c # <<>>
    /\ cur' = [cur EXCEPT ![p] = c[Len(c)]]
    /\ c' = SubSeq(c, 1, Len(c) - 1)
    /\ dequeued' = Append(dequeued, <<p, c[Len(c)].n>>)
    /\ pc' = [pc EXCEPT ![p] = "getImageBytes"]
    /\ UNCHANGED <<xvars, tvars, queueSize, numRoutines, i, serving, alive, r, w, err,
                   files, took>>

\* for r := range p.c
Recv(p) ==
    /\ alive
    /\ pc[p] = "range"
    /\ c # <<>>
    /\ cur' = [cur EXCEPT ![p] = Head(c)]
    /\ c' = Tail(c)
    /\ dequeued' = Append(dequeued, <<p, Head(c).n>>)
    /\ pc' = [pc EXCEPT ![p] = "getImageBytes"]
    /\ UNCHANGED <<xvars, tvars, queueSize, numRoutines, i, serving, alive, r, w, err,
                   files, took>>

\* p.getImageBytes: every failure is a Panicf.
getImageBytes(p) ==
    /\ alive
    /\ pc[p] = "getImageBytes"
    /\ \E ok \in BOOLEAN :
          IF ok
          THEN /\ pc' = [pc EXCEPT ![p] = "WriteFile"]
               /\ UNCHANGED <<alive, cur, err, files, took>>
          ELSE Panic(p, "WriteFile", files, nil)
    /\ UNCHANGED <<xvars, tvars, queueSize, numRoutines, i, serving, c, r, w, dequeued>>

WriteFile_NoReturn(p) ==
    /\ alive
    /\ pc[p] = "WriteFile"
    /\ \E ok \in BOOLEAN :
          IF ok /\ cur[p].filename # <<>>
          THEN /\ files' = files \cup {cur[p].filename}
               /\ pc' = [pc EXCEPT ![p] = "convert"]
               /\ UNCHANGED <<alive, cur, err, took>>
          ELSE /\ pc' = [pc EXCEPT ![p] = "convert"]
               /\ err' = [err EXCEPT ![p] = "WriteFile"]
               /\ UNCHANGED <<alive, cur, files, took>>
    /\ UNCHANGED <<xvars, tvars, queueSize, numRoutines, i, serving, c, r, w, dequeued>>

\* ioutil.WriteFile(r.filename, b, 0600): no file has the empty name.
WriteFile(p) ==
    /\ alive
    /\ pc[p] = "WriteFile"
    /\ \E ok \in BOOLEAN :
          IF ok /\ cur[p].filename # <<>>
          THEN /\ files' = files \cup {cur[p].filename}
               /\ pc' = [pc EXCEPT ![p] = "convert"]
               /\ UNCHANGED <<alive, cur, err, took>>
          ELSE \E left \in SUBSET ({cur[p].filename} \ {<<>>}) :
                  Return(p, "WriteFile", files \cup left, "WriteFile")
    /\ UNCHANGED <<xvars, tvars, queueSize, numRoutines, i, serving, c, r, w, dequeued>>

convert_NoReturn(p) ==
    /\ alive
    /\ pc[p] = "convert"
    /\ \E ok \in BOOLEAN :
          IF ok /\ cur[p].filename \in files
          THEN /\ files' = files \cup {cur[p].saveToFilename}
               /\ pc' = [pc EXCEPT ![p] = "Open"]
               /\ UNCHANGED <<alive, cur, err, took>>
          ELSE /\ pc' = [pc EXCEPT ![p] = "Open"]
               /\ err' = [err EXCEPT ![p] = "CombinedOutput"]
               /\ UNCHANGED <<alive, cur, files, took>>
    /\ UNCHANGED <<xvars, tvars, queueSize, numRoutines, i, serving, c, r, w, dequeued>>

\* cmd.CombinedOutput() of moderateCommand(r.filename, r.saveToFilename):
\* convert cannot succeed without its input file.
convert(p) ==
    /\ alive
    /\ pc[p] = "convert"
    /\ \E ok \in BOOLEAN :
          IF ok /\ cur[p].filename \in files
          THEN /\ files' = files \cup {cur[p].saveToFilename}
               /\ pc' = [pc EXCEPT ![p] = "Open"]
               /\ UNCHANGED <<alive, cur, err, took>>
          ELSE \E left \in SUBSET {cur[p].saveToFilename} :
                  Return(p, "convert", files \cup left, "CombinedOutput")
    /\ UNCHANGED <<xvars, tvars, queueSize, numRoutines, i, serving, c, r, w, dequeued>>

\* os.Open(r.saveToFilename)
Open(p) ==
    /\ alive
    /\ pc[p] = "Open"
    /\ IF cur[p].saveToFilename \in files
       THEN /\ pc' = [pc EXCEPT ![p] = "Insert"]
            /\ UNCHANGED <<alive, cur, err, files, took>>
       ELSE Return(p, "Open", files, "Open")
    /\ UNCHANGED <<xvars, tvars, queueSize, numRoutines, i, serving, c, r, w, dequeued>>

\* p.s.Objects.Insert(...).Do(): on an error res is nil and the Printf that
\* follows dereferences it.
Insert(p) ==
    /\ alive
    /\ pc[p] = "Insert"
    /\ \E ok \in BOOLEAN :
          IF ok
          THEN Return(p, "Insert", files, nil)
          ELSE Panic(p, "Insert", files, "Insert")
    /\ UNCHANGED <<xvars, tvars, queueSize, numRoutines, i, serving, c, r, w, dequeued>>

\* p.l.Printf("Could not process image ..."), then the duration is logged
\* and the loop comes back to the range.
Printf(p) ==
    /\ alive
    /\ pc[p] = "Printf"
    /\ pc' = [pc EXCEPT ![p] = "range"]
    /\ cur' = [cur EXCEPT ![p] = NoReq]
    /\ err' = [err EXCEPT ![p] = nil]
    /\ took' = took + 1
    /\ UNCHANGED <<xvars, tvars, queueSize, numRoutines, i, serving, alive, c, r, w, files,
                   dequeued>>

----------------------------------------------------------------------------

Next ==
    \/ NewImageProcessor
    \/ ListenAndServe
    \/ (Len(w) < MaxRequests /\ \E form \in Forms : ServeHTTP(form))
    \/ \E p \in Procs : Recv(p)
    \/ \E p \in Procs : getImageBytes(p)
    \/ \E p \in Procs : WriteFile(p)
    \/ \E p \in Procs : convert(p)
    \/ \E p \in Procs : Open(p)
    \/ \E p \in Procs : Insert(p)
    \/ \E p \in Procs : Printf(p)

Spec == Init /\ [][Next]_vars

\* What goroutine p of the pool can do.
process(p) ==
    /\ p \in Procs
    /\ \/ Recv(p) \/ getImageBytes(p) \/ WriteFile(p) \/ convert(p)
       \/ Open(p) \/ Insert(p) \/ Printf(p)

\* The scheduler runs main and every goroutine that can run; every stage
\* call returns.
FairSpec ==
    /\ Spec
    /\ WF_vars(NewImageProcessor \/ ListenAndServe)
    /\ \A p \in 1..NumImageProcessors : WF_vars(process(p))

TypeOK ==
    /\ queueSize \in 1..MaxQueueSize
    /\ numRoutines \in 1..NumImageProcessors
    /\ Len(w) <= MaxRequests
    /\ Len(pc) = Len(cur)

----------------------------------------------------------------------------
(* One RoundTrip call of a RetryTransport.                                 *)

\* The pool is not started.
PoolIdle ==
    /\ queueSize = 1
    /\ numRoutines = 1
    /\ i = 0
    /\ serving = FALSE
    /\ alive = TRUE
    /\ c = <<>>
    /\ r = EmptyForm
    /\ w = <<>>
    /\ pc = <<>>
    /\ cur = <<>>
    /\ err = <<>>
    /\ files = {}
    /\ dequeued = <<>>
    /\ took = 0

RetryInit ==
    /\ PoolIdle
    /\ OthersIdle
    /\ maxTries \in 1..MaxTries
    /\ tOrig \in Requests
    /\ tReq = tOrig
    /\ tPc = "ReadAll"
    /\ tBody = <<>>
    /\ tI = 0
    /\ attempts = <<>>
    /\ tResp = NilResponse
    /\ tErr = nil

ReadAll_NoReturn ==
    /\ tPc = "ReadAll"
    /\ IF tReq.Body.isNil
       THEN /\ tPc' = "for"
            /\ UNCHANGED <<tReq, tBody, tErr>>
       ELSE \E ok \in BOOLEAN :
               IF ok
               THEN /\ tBody' = tReq.Body.rest
                    /\ tReq' = [tReq EXCEPT !.Body.rest = <<>>]
                    /\ tPc' = "for"
                    /\ tErr' = nil
               ELSE /\ tErr' = "ReadAll"
                    /\ tPc' = "for"
                    /\ \E k \in 0..Len(tReq.Body.rest) :
                          /\ tBody' = SubSeq(tReq.Body.rest, 1, k)
                          /\ tReq' = [tReq EXCEPT !.Body.rest =
                                         SubSeq(@, k + 1, Len(@))]
    /\ UNCHANGED <<maxTries, tOrig, tI, attempts, tResp>>
    /\ UNCHANGED <<pvars, xvars>>

\* if req.Body != nil { body, err = ioutil.ReadAll(req.Body) ... }: the read
\* leaves the reader of req at its end.
ReadAll ==
    /\ tPc = "ReadAll"
    /\ IF tReq.Body.isNil
       THEN /\ tPc' = "for"
            /\ UNCHANGED <<tReq, tBody, tErr>>
       ELSE \E ok \in BOOLEAN :
               IF ok
               THEN /\ tBody' = tReq.Body.rest
                    /\ tReq' = [tReq EXCEPT !.Body.rest = <<>>]
                    /\ tPc' = "for"
                    /\ tErr' = nil
               ELSE /\ tErr' = "ReadAll"
                    /\ tPc' = "return"
                    /\ \E k \in 0..Len(tReq.Body.rest) :
                          /\ tBody' = SubSeq(tReq.Body.rest, 1, k)
                          /\ tReq' = [tReq EXCEPT !.Body.rest =
                                         SubSeq(@, k + 1, Len(@))]
    /\ UNCHANGED <<maxTries, tOrig, tI, attempts, tResp>>
    /\ UNCHANGED <<pvars, xvars>>

Attempt_StopOnError ==
    /\ tPc = "for"
    /\ tI < maxTries
    /\ LET q == IF tI # 0 THEN copyRequest(tReq, tBody) ELSE tReq
       IN  \E out \in Outcomes :
              /\ attempts' = Append(attempts,
                     [Method |-> q.Method, URL |-> q.URL, Header |-> q.Header,
                      Body |-> q.Body.rest, out |-> out])
              /\ tReq' = [q EXCEPT !.Body.rest = <<>>]
              /\ IF out = TransportError
                 THEN /\ tResp' = NilResponse
                      /\ tErr' = "RoundTrip"
                      /\ tI' = tI
                      /\ tPc' = "return"
                 ELSE IF out \notin retryableCodes
                 THEN /\ tResp' = [StatusCode |-> out, closed |-> FALSE]
                      /\ tErr' = nil
                      /\ tI' = tI
                      /\ tPc' = "return"
                 ELSE /\ tResp' = [StatusCode |-> out, closed |-> TRUE]
                      /\ tErr' = nil
                      /\ tI' = tI + 1
                      /\ tPc' = IF tI + 1 < maxTries THEN "for" ELSE "return"
    /\ UNCHANGED <<maxTries, tOrig, tBody>>
    /\ UNCHANGED <<pvars, xvars>>

\* One turn of the loop: the request is rebuilt unless i = 0, the wrapped
\* transport is called and reads what the body of the request holds; the
\* loop ends on a response that is not retryable or when i reaches maxTries.
Attempt ==
    /\ tPc = "for"
    /\ tI < maxTries
    /\ LET q == IF tI # 0 THEN copyRequest(tReq, tBody) ELSE tReq
       IN  \E out \in Outcomes :
              /\ attempts' = Append(attempts,
                     [Method |-> q.Method, URL |-> q.URL, Header |-> q.Header,
                      Body |-> q.Body.rest, out |-> out])
              /\ tReq' = [q EXCEPT !.Body.rest = <<>>]
              /\ IF out = TransportError
                 THEN /\ tResp' = NilResponse
                      /\ tErr' = "RoundTrip"
                      /\ tI' = tI + 1
                      /\ tPc' = IF tI + 1 < maxTries THEN "for" ELSE "return"
                 ELSE IF out \notin retryableCodes
                 THEN /\ tResp' = [StatusCode |-> out, closed |-> FALSE]
                      /\ tErr' = nil
                      /\ tI' = tI
                      /\ tPc' = "return"
                 ELSE /\ tResp' = [StatusCode |-> out, closed |-> TRUE]
                      /\ tErr' = nil
                      /\ tI' = tI + 1
                      /\ tPc' = IF tI + 1 < maxTries THEN "for" ELSE "return"
    /\ UNCHANGED <<maxTries, tOrig, tBody>>
    /\ UNCHANGED <<pvars, xvars>>

RetryNext ==
    \/ ReadAll
    \/ Attempt

RetrySpec == RetryInit /\ [][RetryNext]_vars

----------------------------------------------------------------------------
(* One getProcessImageReq call, on any form.                               *)

Alphabet == {"b", "/", "."}

\* The strings of at most n characters.
Strings(n) == UNION { [1..k -> Alphabet] : k \in 0..n }

ParseForms ==
    { Form(id, saveTo) : id \in Strings(MaxIdLen), saveTo \in {<<"d">>, <<>>} }
       \cup { FormNoId(<<"d">>), EmptyForm }

ParseInit ==
    /\ PoolIdle
    /\ TransportIdle
    /\ RelayIdle
    /\ ScriptsIdle
    /\ aPc = "call"
    /\ aForm \in ParseForms
    /\ aReq = [err |-> FALSE, req |-> NoReq]

\* req, err := getProcessImageReq(r)
CallGetProcessImageReq ==
    /\ aPc = "call"
    /\ aReq' = getProcessImageReq(aForm)
    /\ aPc' = "return"
    /\ UNCHANGED <<aForm, pvars, tvars, rvars, svars>>

ParseSpec == ParseInit /\ [][CallGetProcessImageReq]_vars

----------------------------------------------------------------------------
(* The relay: transformImage, and the older worker handler.                *)

saveToBucketName == <<"s">>

\* strings.Join([]string{a, b}, "/")
Join(a, b) == a \o <<"/">> \o b

Notifications ==
    { [BucketName |-> b, ObjectName |-> o] :
         b \in {<<"b">>, <<"c">>},
         o \in {<<"o", ".", "j">>, <<"d", "/", "o">>, <<>>} }

\* What client.PostForm gives back: an error, or a response with a status
\* and a body that can be read to its end or not.
RelayStatuses == {200, 404, 500, 502, 503}
RelayResponses ==
    { [StatusCode |-> st, readable |-> rd] :
         st \in RelayStatuses, rd \in BOOLEAN }

RelayInit ==
    /\ PoolIdle
    /\ TransportIdle
    /\ ParseIdle
    /\ ScriptsIdle
    /\ rlFn \in {"transformImage", "worker"}
    /\ rlPc = "PostForm"
    /\ rlN \in Notifications
    /\ rlValues = EmptyForm
    /\ rlPostErr = FALSE
    /\ rlResp = [StatusCode |-> 0, readable |-> FALSE]
    /\ rlErr = nil
    /\ rlW = 0

transformImage_PostForm_NoStatusCheck ==
    /\ rlFn = "transformImage"
    /\ rlPc = "PostForm"
    /\ rlValues' = Form(Join(rlN.BucketName, rlN.ObjectName), saveToBucketName)
    /\ \/ /\ rlPostErr' = TRUE
          /\ rlErr' = "PostForm"
          /\ rlPc' = "return"
          /\ UNCHANGED rlResp
       \/ \E resp \in RelayResponses :
             /\ rlPostErr' = FALSE
             /\ rlResp' = resp
             /\ rlErr' = nil
             /\ rlPc' = "ReadAll"
    /\ UNCHANGED <<rlFn, rlN, rlW, pvars, tvars, avars, svars>>

\* transformImage up to the status check: the form is built and posted; an
\* error of PostForm is returned, and so is the error made for a status
\* other than 200.
transformImage_PostForm ==
    /\ rlFn = "transformImage"
    /\ rlPc = "PostForm"
    /\ rlValues' = Form(Join(rlN.BucketName, rlN.ObjectName), saveToBucketName)
    /\ \/ /\ rlPostErr' = TRUE
          /\ rlErr' = "PostForm"
          /\ rlPc' = "return"
          /\ UNCHANGED rlResp
       \/ \E resp \in RelayResponses :
             /\ rlPostErr' = FALSE
             /\ rlResp' = resp
             /\ IF resp.StatusCode # StatusOK
                THEN /\ rlErr' = "Non-200 response from backend"
                     /\ rlPc' = "return"
                ELSE /\ rlErr' = nil
                     /\ rlPc' = "ReadAll"
    /\ UNCHANGED <<rlFn, rlN, rlW, pvars, tvars, avars, svars>>

\* respBody, err := ioutil.ReadAll(resp.Body), then the return.
transformImage_ReadAll ==
    /\ rlFn = "transformImage"
    /\ rlPc = "ReadAll"
    /\ rlErr' = IF rlResp.readable THEN nil ELSE "ReadAll"
    /\ rlPc' = "return"
    /\ UNCHANGED <<rlFn, rlN, rlValues, rlPostErr, rlResp, rlW, pvars, tvars,
                   avars, svars>>

\* worker up to the check of the error of PostForm: on an error it writes
\* 503 and returns.
worker_PostForm ==
    /\ rlFn = "worker"
    /\ rlPc = "PostForm"
    /\ rlValues' = Form(Join(rlN.BucketName, rlN.ObjectName), saveToBucketName)
    /\ \/ /\ rlPostErr' = TRUE
          /\ rlW' = StatusServiceUnavailable
          /\ rlPc' = "return"
          /\ UNCHANGED rlResp
       \/ \E resp \in RelayResponses :
             /\ rlPostErr' = FALSE
             /\ rlResp' = resp
             /\ rlW' = rlW
             /\ rlPc' = "ReadAll"
    /\ UNCHANGED <<rlFn, rlN, rlErr, pvars, tvars, avars, svars>>

\* worker reads the body, logs it or the error of the read, and writes the
\* status of the response.
worker_ReadAll ==
    /\ rlFn = "worker"
    /\ rlPc = "ReadAll"
    /\ rlW' = rlResp.StatusCode
    /\ rlPc' = "return"
    /\ UNCHANGED <<rlFn, rlN, rlValues, rlPostErr, rlResp, rlErr, pvars, tvars,
                   avars, svars>>

RelayNext ==
    \/ transformImage_PostForm
    \/ transformImage_ReadAll
    \/ worker_PostForm
    \/ worker_ReadAll

RelaySpec == RelayInit /\ [][RelayNext]_vars

----------------------------------------------------------------------------
(* scripts/duplicate_files.go: main, duplicateFiles and copyObject.        *)
(* c and f are unbuffered: a send and its receive are one step.            *)

DupProcs == 1..DupCopiers

\* objects := getObjects(...), the channels, wg.Add(numCopiers) and the go
\* statements of main.
DupInit ==
    /\ PoolIdle
    /\ TransportIdle
    /\ ParseIdle
    /\ RelayIdle
    /\ GenIdle
    /\ dN \in 0..MaxObjects
    /\ dNext = 1
    /\ dCClosed = FALSE
    /\ dFClosed = FALSE
    /\ dPc = [p \in DupProcs |-> "range"]
    /\ dO = [p \in DupProcs |-> 0]
    /\ dI = [p \in DupProcs |-> 0]
    /\ dWg = DupCopiers
    /\ dMain = "range"
    /\ dHanded = [o \in 1..MaxObjects |-> 0]
    /\ dTries = [o \in 1..MaxObjects |-> 0]
    /\ dFailed = {}
    /\ dReported = [o \in 1..MaxObjects |-> 0]

\* The producer's c <- o, received by the range of copier p, which calls
\* copyObject.
DupSend(p) ==
    /\ ~dCClosed /\ dNext <= dN
    /\ dPc[p] = "range"
    /\ dPc' = [dPc EXCEPT ![p] = "Copy"]
    /\ dO' = [dO EXCEPT ![p] = dNext]
    /\ dI' = [dI EXCEPT ![p] = 0]
    /\ dHanded' = [dHanded EXCEPT ![dNext] = @ + 1]
    /\ dNext' = dNext + 1
    /\ UNCHANGED <<dN, dCClosed, dFClosed, dWg, dMain, dTries, dFailed,
                   dReported>>
    /\ UNCHANGED <<pvars, tvars, avars, rvars, gvars>>

\* The producer's loop is over: the deferred close(c).
DupCloseC ==
    /\ ~dCClosed /\ dNext > dN
    /\ dCClosed' = TRUE
    /\ UNCHANGED <<dN, dNext, dFClosed, dPc, dO, dI, dWg, dMain, dHanded,
                   dTries, dFailed, dReported>>
    /\ UNCHANGED <<pvars, tvars, avars, rvars, gvars>>

\* The condition of the loop of copyObject.
DupLoopCond(k) == k <= 3

\* One turn of the loop of copyObject in copier p: a Copy call; on success
\* the loop breaks, copyObject returns nil and duplicateFiles goes to its
\* next object; on the error that ends the loop copyObject returns it and
\* duplicateFiles sends the name on out.
DupCopy(p) ==
    /\ dPc[p] = "Copy"
    /\ DupLoopCond(dI[p])
    /\ dTries' = [dTries EXCEPT ![dO[p]] = @ + 1]
    /\ \E ok \in BOOLEAN :
          IF ok
          THEN /\ dPc' = [dPc EXCEPT ![p] = "range"]
               /\ dO' = [dO EXCEPT ![p] = 0]
               /\ UNCHANGED <<dI, dFailed>>
          ELSE /\ dI' = [dI EXCEPT ![p] = @ + 1]
               /\ IF DupLoopCond(dI[p] + 1)
                  THEN UNCHANGED <<dPc, dO, dFailed>>
                  ELSE /\ dPc' = [dPc EXCEPT ![p] = "send"]
                       /\ dFailed' = dFailed \cup {dO[p]}
                       /\ dO' = dO
    /\ UNCHANGED <<dN, dNext, dCClosed, dFClosed, dWg, dMain, dHanded,
                   dReported>>
    /\ UNCHANGED <<pvars, tvars, avars, rvars, gvars>>

\* out <- o.Name in copier p, received by the range over f of main, which
\* prints it.
DupReport(p) ==
    /\ dPc[p] = "send"
    /\ dMain = "range" /\ ~dFClosed
    /\ dReported' = [dReported EXCEPT ![dO[p]] = @ + 1]
    /\ dPc' = [dPc EXCEPT ![p] = "range"]
    /\ dO' = [dO EXCEPT ![p] = 0]
    /\ UNCHANGED <<dN, dNext, dCClosed, dFClosed, dI, dWg, dMain, dHanded,
                   dTries, dFailed>>
    /\ UNCHANGED <<pvars, tvars, avars, rvars, gvars>>

\* The range of copier p ends on the closed c: "copier exiting", wg.Done().
DupExit(p) ==
    /\ dPc[p] = "range"
    /\ dCClosed
    /\ dPc' = [dPc EXCEPT ![p] = "done"]
    /\ dWg' = dWg - 1
    /\ UNCHANGED <<dN, dNext, dCClosed, dFClosed, dO, dI, dMain, dHanded,
                   dTries, dFailed, dReported>>
    /\ UNCHANGED <<pvars, tvars, avars, rvars, gvars>>

DupWait_NoWait ==
    /\ ~dFClosed
    /\ dFClosed' = TRUE
    /\ UNCHANGED <<dN, dNext, dCClosed, dPc, dO, dI, dWg, dMain, dHanded,
                   dTries, dFailed, dReported>>
    /\ UNCHANGED <<pvars, tvars, avars, rvars, gvars>>

\* go func() { wg.Wait(); close(f) }()
DupWait ==
    /\ dWg = 0
    /\ ~dFClosed
    /\ dFClosed' = TRUE
    /\ UNCHANGED <<dN, dNext, dCClosed, dPc, dO, dI, dWg, dMain, dHanded,
                   dTries, dFailed, dReported>>
    /\ UNCHANGED <<pvars, tvars, avars, rvars, gvars>>

\* The range over f of main ends on the closed f: main returns.
DupReturn ==
    /\ dMain = "range"
    /\ dFClosed
    /\ dMain' = "return"
    /\ UNCHANGED <<dN, dNext, dCClosed, dFClosed, dPc, dO, dI, dWg, dHanded,
                   dTries, dFailed, dReported>>
    /\ UNCHANGED <<pvars, tvars, avars, rvars, gvars>>

DupNext ==
    \/ \E p \in DupProcs : DupSend(p)
    \/ DupCloseC
    \/ \E p \in DupProcs : DupCopy(p)
    \/ \E p \in DupProcs : DupReport(p)
    \/ \E p \in DupProcs : DupExit(p)
    \/ DupWait
    \/ DupReturn

DupSpec == DupInit /\ [][DupNext]_vars

\* What copier p can do on its own account.
duplicateFiles(p) == DupCopy(p) \/ DupReport(p) \/ DupExit(p)

\* Every goroutine that can run does run, and every Copy call returns.
DupFairSpec ==
    /\ DupSpec
    /\ WF_vars((\E p \in DupProcs : DupSend(p)) \/ DupCloseC)
    /\ \A p \in DupProcs : WF_vars(duplicateFiles(p))
    /\ WF_vars(DupWait)
    /\ WF_vars(DupReturn)

----------------------------------------------------------------------------
(* scripts/generate_files.go: main and copyObjects.                        *)
(* c is buffered, f and finished are unbuffered. The requests are numbered *)
(* as main's loop numbers them, 1..numFiles-1. When main returns the       *)
(* process is over.                                                        *)

GenProcs == 1..GenCopiers

GenRequests == 1..(GenFiles - 1)

\* The channels, wg.Add(numCopiers) and the go statements of main.
GenInit ==
    /\ PoolIdle
    /\ TransportIdle
    /\ ParseIdle
    /\ RelayIdle
    /\ DupIdle
    /\ gNext = 1
    /\ gC = <<>>
    /\ gCClosed = FALSE
    /\ gFClosed = FALSE
    /\ gFinClosed = FALSE
    /\ gPc = [p \in GenProcs |-> "range"]
    /\ gO = [p \in GenProcs |-> 0]
    /\ gI = [p \in GenProcs |-> 0]
    /\ gErr = [p \in GenProcs |-> nil]
    /\ gWg = GenCopiers
    /\ gMain = "for"
    /\ gCount = 0
    /\ gOnF = [o \in GenRequests |-> 0]
    /\ gOnFin = [o \in GenRequests |-> 0]
    /\ gTries = [o \in GenRequests |-> 0]

\* One turn of the loop of main: c <- &GCSCopyReq{...}, which waits while
\* the buffer is full.
GenProduce ==
    /\ gMain = "for"
    /\ gNext < GenFiles
    /\ Len(gC) < GenQueueSize
    /\ gC' = Append(gC, gNext)
    /\ gNext' = gNext + 1
    /\ UNCHANGED <<gCClosed, gFClosed, gFinClosed, gPc, gO, gI, gErr, gWg,
                   gMain, gCount, gOnF, gOnFin, gTries>>
    /\ UNCHANGED <<pvars, tvars, avars, rvars, dvars>>

\* The loop of main is over: close(c); main goes to its range over f.
GenCloseC ==
    /\ gMain = "for"
    /\ ~(gNext < GenFiles)
    /\ gCClosed' = TRUE
    /\ gMain' = "range"
    /\ UNCHANGED <<gNext, gC, gFClosed, gFinClosed, gPc, gO, gI, gErr, gWg,
                   gCount, gOnF, gOnFin, gTries>>
    /\ UNCHANGED <<pvars, tvars, avars, rvars, dvars>>

\* for o := range in, in copier p.
GenRecv(p) ==
    /\ gMain # "return"
    /\ gPc[p] = "range"
    /\ gC # <<>>
    /\ gO' = [gO EXCEPT ![p] = Head(gC)]
    /\ gC' = Tail(gC)
    /\ gI' = [gI EXCEPT ![p] = 0]
    /\ gPc' = [gPc EXCEPT ![p] = "Copy"]
    /\ UNCHANGED <<gNext, gCClosed, gFClosed, gFinClosed, gErr, gWg, gMain,
                   gCount, gOnF, gOnFin, gTries>>
    /\ UNCHANGED <<pvars, tvars, avars, rvars, dvars>>

\* The condition of the retry loop of copyObjects.
GenLoopCond(k) == k < 3

\* One turn of the retry loop in copier p: a Copy call; the loop ends on a
\* success or when i reaches 3.
GenCopy(p) ==
    /\ gMain # "return"
    /\ gPc[p] = "Copy"
    /\ GenLoopCond(gI[p])
    /\ gTries' = [gTries EXCEPT ![gO[p]] = @ + 1]
    /\ \E ok \in BOOLEAN :
          IF ok
          THEN /\ gErr' = [gErr EXCEPT ![p] = nil]
               /\ gPc' = [gPc EXCEPT ![p] = "report"]
               /\ gI' = gI
          ELSE /\ gErr' = [gErr EXCEPT ![p] = "Copy"]
               /\ gI' = [gI EXCEPT ![p] = @ + 1]
               /\ gPc' = [gPc EXCEPT ![p] =
                             IF GenLoopCond(gI[p] + 1) THEN "Copy" ELSE "report"]
    /\ UNCHANGED <<gNext, gC, gCClosed, gFClosed, gFinClosed, gO, gWg, gMain,
                   gCount, gOnF, gOnFin>>
    /\ UNCHANGED <<pvars, tvars, avars, rvars, dvars>>

\* err != nil: out <- o.DestFile in copier p, received by the range over f
\* of main, which main reaches only after close(c).
GenReportF(p) ==
    /\ gPc[p] = "report"
    /\ gErr[p] # nil
    /\ gMain = "range" /\ ~gFClosed
    /\ gOnF' = [gOnF EXCEPT ![gO[p]] = @ + 1]
    /\ gPc' = [gPc EXCEPT ![p] = "range"]
    /\ gO' = [gO EXCEPT ![p] = 0]
    /\ UNCHANGED <<gNext, gC, gCClosed, gFClosed, gFinClosed, gI, gErr, gWg,
                   gMain, gCount, gOnFin, gTries>>
    /\ UNCHANGED <<pvars, tvars, avars, rvars, dvars>>

\* err == nil: fin <- struct{}{} in copier p, received by the goroutine
\* that ranges over finished and counts.
GenReportFin(p) ==
    /\ gMain # "return"
    /\ gPc[p] = "report"
    /\ gErr[p] = nil
    /\ ~gFinClosed
    /\ gOnFin' = [gOnFin EXCEPT ![gO[p]] = @ + 1]
    /\ gCount' = gCount + 1
    /\ gPc' = [gPc EXCEPT ![p] = "range"]
    /\ gO' = [gO EXCEPT ![p] = 0]
    /\ UNCHANGED <<gNext, gC, gCClosed, gFClosed, gFinClosed, gI, gErr, gWg,
                   gMain, gOnF, gTries>>
    /\ UNCHANGED <<pvars, tvars, avars, rvars, dvars>>

\* The range of copier p ends on the closed and drained c: wg.Done().
GenExit(p) ==
    /\ gMain # "return"
    /\ gPc[p] = "range"
    /\ gC = <<>> /\ gCClosed
    /\ gPc' = [gPc EXCEPT ![p] = "done"]
    /\ gWg' = gWg - 1
    /\ UNCHANGED <<gNext, gC, gCClosed, gFClosed, gFinClosed, gO, gI, gErr,
                   gMain, gCount, gOnF, gOnFin, gTries>>
    /\ UNCHANGED <<pvars, tvars, avars, rvars, dvars>>

\* go func() { wg.Wait(); close(f); ... }()
GenCloseF ==
    /\ gMain # "return"
    /\ gWg = 0
    /\ ~gFClosed
    /\ gFClosed' = TRUE
    /\ UNCHANGED <<gNext, gC, gCClosed, gFinClosed, gPc, gO, gI, gErr, gWg,
                   gMain, gCount, gOnF, gOnFin, gTries>>
    /\ UNCHANGED <<pvars, tvars, avars, rvars, dvars>>

\* ... close(finished)
GenCloseFinished ==
    /\ gMain # "return"
    /\ gFClosed
    /\ ~gFinClosed
    /\ gFinClosed' = TRUE
    /\ UNCHANGED <<gNext, gC, gCClosed, gFClosed, gPc, gO, gI, gErr, gWg,
                   gMain, gCount, gOnF, gOnFin, gTries>>
    /\ UNCHANGED <<pvars, tvars, avars, rvars, dvars>>

\* The range over f of main ends on the closed f: main returns.
GenReturn ==
    /\ gMain = "range"
    /\ gFClosed
    /\ gMain' = "return"
    /\ UNCHANGED <<gNext, gC, gCClosed, gFClosed, gFinClosed, gPc, gO, gI, gErr,
                   gWg, gCount, gOnF, gOnFin, gTries>>
    /\ UNCHANGED <<pvars, tvars, avars, rvars, dvars>>

GenNext ==
    \/ GenProduce
    \/ GenCloseC
    \/ \E p \in GenProcs : GenRecv(p)
    \/ \E p \in GenProcs : GenCopy(p)
    \/ \E p \in GenProcs : GenReportF(p)
    \/ \E p \in GenProcs : GenReportFin(p)
    \/ \E p \in GenProcs : GenExit(p)
    \/ GenCloseF
    \/ GenCloseFinished
    \/ GenReturn

GenSpec == GenInit /\ [][GenNext]_vars

----------------------------------------------------------------------------
(* Vocabulary of the properties.                                           *)

\* The step is one ServeHTTP call: exactly one more response is written.
Served == Len(w') = Len(w) + 1

\* The response to the most recent ServeHTTP call.
LastResponse == w[Len(w)]

\* The form carries a non-empty id.
HasId(form) == "id" \in DOMAIN form /\ form["id"] # <<>>

\* The id reads bucket/object-name, neither part empty.
WellFormed(form) ==
    /\ HasId(form)
    /\ \E k \in 2..(Len(form["id"]) - 1) :
          /\ form["id"][k] = "/"
          /\ \A j \in (k + 1)..Len(form["id"]) : form["id"][j] # "/"
          /\ \E j \in 1..(k - 1) : form["id"][j] # "/"

Acknowledgement == [code |-> 200, body |-> "hostname=host"]

\* The numbers of the requests received from the channel so far.
DequeuedAt(j) == dequeued[j][2]

Busy == {p \in Procs : pc[p] # "range"}

----------------------------------------------------------------------------
(* C1: a well-formed request served while the queue has a free slot is     *)
(* answered 200 with body hostname=<host>, and the queue holds exactly one *)
(* request more.                                                           *)
C1_AdmitWhenFree ==
    [][(Served /\ WellFormed(r') /\ Len(c) < queueSize)
          => /\ w'[Len(w')] = Acknowledgement
             /\ Len(c') = Len(c) + 1
             /\ SubSeq(c', 1, Len(c)) = c]_vars

C1_Witness ==
    /\ Len(w) > 0 /\ WellFormed(r)
    /\ LastResponse = Acknowledgement
    /\ c # <<>> /\ c[Len(c)].n = Len(w)
    /\ Len(c) = 2

(* C2: a well-formed request served while the queue is at capacity is      *)
(* answered 503 and the queue is left exactly as it was.                   *)
C2_RejectWhenFull ==
    [][(Served /\ WellFormed(r') /\ Len(c) = queueSize)
          => /\ w'[Len(w')].code = 503
             /\ c' = c]_vars

C2_Witness ==
    /\ Len(w) > 0 /\ WellFormed(r)
    /\ LastResponse.code = 503
    /\ Len(c) = queueSize

(* C3: as long as no worker has received anything, the valid requests      *)
(* served so far got 200 for exactly the first queueSize of them and 503   *)
(* for every later one (a 500 marks a request that was not valid).         *)
C3_FirstCAdmitted ==
    dequeued = <<>> =>
        LET valid == SelectSeq(w, LAMBDA x : x.code # 500)
        IN  \A k \in 1..Len(valid) :
               valid[k].code = IF k <= queueSize THEN 200 ELSE 503

C3_Witness ==
    /\ dequeued = <<>>
    /\ queueSize = 2 /\ Len(pc) = 1
    /\ Len(w) = 3
    /\ w[1].code = 200 /\ w[2].code = 200 /\ w[3].code = 503

(* C4: a request whose id is missing or empty is answered 500 and nothing  *)
(* is enqueued, whatever its other fields and however full the queue.      *)
C4_MissingIdRejected ==
    [][(Served /\ ~HasId(r')) => (w'[Len(w')].code = 500 /\ c' = c)]_vars

C4_Witness ==
    /\ Len(w) > 0
    /\ "id" \notin DOMAIN r /\ "save-to" \in DOMAIN r
    /\ LastResponse.code = 500
    /\ Len(c) < queueSize

(* C5: a request whose id is present but does not split into a non-empty   *)
(* bucket and a non-empty object name is answered 500 and nothing is       *)
(* enqueued.                                                               *)
C5_MalformedIdRejected ==
    [][(Served /\ HasId(r') /\ ~WellFormed(r'))
          => (w'[Len(w')].code = 500 /\ c' = c)]_vars

(* C6: admission never blocks: while the process serves, a ServeHTTP call  *)
(* on any form can complete at once, whatever the queue and the workers    *)
(* do, and every call was answered with one of 200, 503, 500.              *)
C6_AdmissionNeverBlocks ==
    /\ (alive /\ serving) => \A form \in Forms : ENABLED ServeHTTP(form)
    /\ \A k \in 1..Len(w) : w[k].code \in {200, 503, 500}

C6_Witness ==
    /\ alive /\ serving
    /\ Len(c) = queueSize
    /\ Busy = Procs
    /\ Len(w) > 0 /\ LastResponse.code = 503

(* C7: the queue never holds more requests than the capacity given at      *)
(* construction, and that capacity never changes.                          *)
C7_QueueBounded ==
    /\ [](Len(c) >= 0 /\ Len(c) <= queueSize)
    /\ [][queueSize' = queueSize]_vars

C7_Witness ==
    /\ Len(c) = queueSize
    /\ Busy # {}
    /\ \E k \in 1..Len(w) : w[k].code = 503

(* C8: every request answered 200 is, at any time, either still in the     *)
(* queue or received exactly once from it, never both and never twice, and *)
(* no two workers hold the same request.                                   *)
C8_ConsumedOnce ==
    /\ \A k \in 1..Len(w) :
          w[k].code = 200 =>
             Cardinality({j \in 1..Len(c) : c[j].n = k})
               + Cardinality({j \in 1..Len(dequeued) : DequeuedAt(j) = k}) = 1
    /\ \A p, q \in Procs :
          (p # q /\ cur[p].n # 0) => cur[p].n # cur[q].n

C8_Witness ==
    /\ Len(dequeued) >= 2
    /\ dequeued[1][1] # dequeued[2][1]
    /\ \A p \in Procs : cur[p].n # 0

(* C9: requests leave the queue in the order they entered it: when a       *)
(* request is received, every request admitted before it has been          *)
(* received earlier.                                                       *)
C9_Fifo ==
    \A j \in 1..Len(dequeued) :
       \A a \in 1..(DequeuedAt(j) - 1) :
          w[a].code = 200 => \E e \in 1..(j - 1) : DequeuedAt(e) = a

C9_Witness ==
    /\ Len(dequeued) >= 2
    /\ \E p \in Procs : pc[p] = "range"
    /\ Len(c) >= 1

(* C10: once constructed the pool has exactly numRoutines workers, never   *)
(* more, and the requests received and not yet finished are as many as the *)
(* busy workers: at most numRoutines, one per worker.                      *)
C10_PoolSize ==
    /\ Len(pc) <= numRoutines
    /\ serving => Len(pc) = numRoutines
    /\ Len(dequeued) - took = Cardinality(Busy)
    /\ Len(dequeued) - took <= numRoutines

C10_Witness ==
    /\ serving /\ numRoutines = 2
    /\ Cardinality(Busy) = 2
    /\ c # <<>>

----------------------------------------------------------------------------
(* Vocabulary of the pipeline properties.                                  *)

Stages == {"getImageBytes", "WriteFile", "convert", "Open", "Insert"}

\* Where goroutine p stands once processImage is over.
Exits == {"Printf", "range", "panic"}

\* The moves of one goroutine of the pool.
Edges ==
    { <<"range", "getImageBytes">>, <<"getImageBytes", "WriteFile">>,
      <<"WriteFile", "convert">>, <<"convert", "Open">>,
      <<"Open", "Insert">>,
      <<"getImageBytes", "panic">>, <<"WriteFile", "Printf">>,
      <<"convert", "Printf">>, <<"Open", "Printf">>,
      <<"Insert", "range">>, <<"Insert", "panic">>, <<"Printf", "range">> }

Scratch(p) == {cur[p].filename, cur[p].saveToFilename}

\* Request n was received and no goroutine holds it any more.
Terminal(n) ==
    /\ \E j \in 1..Len(dequeued) : DequeuedAt(j) = n
    /\ \A p \in Procs : cur[p].n # n

----------------------------------------------------------------------------
(* C11: when the fetch of a request fails, the worker goes to neither the  *)
(* transformation nor the upload, the process stays alive and the worker   *)
(* comes back to its loop.                                                 *)
C11_FetchFailureScoped ==
    [][\A p \in Procs :
          (pc[p] = "getImageBytes" /\ pc'[p] \notin {"getImageBytes", "WriteFile"})
             => (alive' /\ pc'[p] \in {"Printf", "range"})]_vars

(* C12: when the upload of a request fails, the error goes back to the     *)
(* loop of the worker to be logged and the process stays alive.            *)
C12_UploadFailureScoped ==
    [][\A p \in Procs :
          (pc[p] = "Insert" /\ err'[p] # nil)
             => (alive' /\ pc'[p] = "Printf")]_vars

(* C13: when the transformation of a request fails, the worker goes to the *)
(* log of its loop with the error and the same request, never to the       *)
(* upload, the process stays alive, and from the log the worker comes back *)
(* to the range over the queue.                                            *)
C13_TransformFailureScoped ==
    /\ [](\A p \in Procs : pc[p] \in {"convert", "Open", "Insert"} => err[p] = nil)
    /\ [][\A p \in Procs :
             /\ (pc[p] = "convert" /\ err'[p] # nil)
                   => (pc'[p] = "Printf" /\ alive' /\ cur'[p] = cur[p])
             /\ (pc[p] = "Printf" /\ pc'[p] # "Printf")
                   => (pc'[p] = "range" /\ alive' /\ took' = took + 1)]_vars

C13_Witness ==
    \E p \in Procs :
       /\ pc[p] = "Printf" /\ err[p] = "CombinedOutput"
       /\ alive /\ c # <<>>

(* C14: a worker runs the stages of a request in the order fetch, stage,   *)
(* transform, upload, never going back, each entered only when the one     *)
(* before succeeded on the same request and left its file.                 *)
C14_StageOrder ==
    [][\A p \in Procs :
          pc'[p] # pc[p] =>
             /\ <<pc[p], pc'[p]>> \in Edges
             /\ (pc[p] \in Stages /\ pc'[p] \in Stages)
                   => (err'[p] = nil /\ cur'[p] = cur[p])
             /\ pc'[p] = "convert" => cur[p].filename \in files'
             /\ pc'[p] = "Open" => cur[p].saveToFilename \in files']_vars

C14_Witness ==
    \E p \in Procs :
       /\ pc[p] = "Insert" /\ err[p] = nil
       /\ Scratch(p) \subseteq files

(* C15: once the input scratch file is staged, every way out of            *)
(* processImage removes it: when the worker leaves the transform or upload *)
(* stage for its loop, no file has the name of its input file.             *)
C15_InputRemoved ==
    [][\A p \in Procs :
          (pc[p] \in {"convert", "Open", "Insert"} /\ pc'[p] \in Exits)
             => cur[p].filename \notin files']_vars

C15_Witness ==
    \E p \in Procs :
       /\ pc[p] = "Printf" /\ err[p] = "CombinedOutput"
       /\ cur[p].filename \notin files
       /\ cur[p].saveToFilename \in files

(* C16: once the transformation has produced the output scratch file,      *)
(* every way out of processImage removes it (upload done, output not       *)
(* opened, upload failed).                                                 *)
C16_OutputRemoved ==
    [][\A p \in Procs :
          (pc[p] \in {"Open", "Insert"} /\ pc'[p] \in Exits)
             => cur[p].saveToFilename \notin files']_vars

C16_Witness ==
    \E p \in Procs :
       /\ pc[p] = "panic" /\ err[p] = "Insert"
       /\ Scratch(p) \cap files = {}

(* C17: two requests in flight in different workers never have a scratch   *)
(* path in common.                                                         *)
C17_ScratchNotShared ==
    \A p, q \in Procs :
       (p # q /\ pc[p] \in Stages /\ pc[q] \in Stages)
          => Scratch(p) \cap Scratch(q) = {}

(* C18: every request answered 200 is eventually received by a worker and  *)
(* finished, whatever happens to the requests before it.                   *)
C18_AdmittedEventuallyDone ==
    \A n \in 1..MaxRequests :
       (Len(w) >= n /\ w[n].code = 200) ~> Terminal(n)

----------------------------------------------------------------------------
(* Vocabulary of the transport properties.                                 *)

\* The bytes of the body of the request the caller passed.
OrigBody == tOrig.Body.rest

\* The first k attempts were answered with retryable statuses.
RetryableUpTo(k) ==
    /\ Len(attempts) >= k
    /\ \A j \in 1..k : attempts[j].out \in retryableCodes

(* C19: when the first k < maxTries attempts are answered with retryable   *)
(* statuses and attempt k+1 with another status, RoundTrip returns that    *)
(* response and no error after exactly k+1 attempts, each made with the    *)
(* body of the original request.                                           *)
C19_RetryThenSuccess ==
    tPc = "return" =>
       \A k \in 0..(maxTries - 1) :
          ( /\ RetryableUpTo(k)
            /\ Len(attempts) >= k + 1
            /\ attempts[k + 1].out \in StatusCodes \ retryableCodes )
          => /\ Len(attempts) = k + 1
             /\ tResp = [StatusCode |-> attempts[k + 1].out, closed |-> FALSE]
             /\ tErr = nil
             /\ \A j \in 1..(k + 1) : attempts[j].Body = OrigBody

(* C20: when maxTries attempts in a row are answered with retryable        *)
(* statuses, RoundTrip returns after exactly maxTries attempts the last    *)
(* response as the transport gave it, its body not closed.                 *)
C20_RetriesExhausted ==
    (tPc = "return" /\ RetryableUpTo(maxTries))
       => /\ Len(attempts) = maxTries
          /\ tResp = [StatusCode |-> attempts[maxTries].out, closed |-> FALSE]
          /\ tErr = nil

----------------------------------------------------------------------------
\* Attempt j ended the loop: its response has a status that is not retryable.
Final(j) == attempts[j].out \in StatusCodes \ retryableCodes

\* The slices of the header of attempt j.
SlicesOf(j) == {attempts[j].Header[k].at : k \in DOMAIN attempts[j].Header}

(* C21: whatever the outcomes of the attempts, RoundTrip makes no attempt   *)
(* after one answered with a status that is not retryable, makes at most   *)
(* maxTries attempts, goes on after a transport error as after a retryable *)
(* status (it returns only after a final status or after maxTries          *)
(* attempts), and returns the response and the error of its last attempt.  *)
C21_RetryPolicy ==
    /\ Len(attempts) <= maxTries
    /\ \A j \in 1..(Len(attempts) - 1) : ~Final(j)
    /\ (tPc = "for" /\ attempts # <<>>) => ~Final(Len(attempts))
    /\ (tPc = "return" /\ attempts # <<>>) =>
          LET last == attempts[Len(attempts)]
          IN  /\ Final(Len(attempts)) \/ Len(attempts) = maxTries
              /\ tErr = IF last.out = TransportError THEN "RoundTrip" ELSE nil
              /\ tResp.StatusCode = last.out
              /\ last.out = TransportError => tResp = NilResponse

C21_Witness ==
    /\ tPc = "return" /\ Len(attempts) = 3
    /\ attempts[1].out = TransportError
    /\ attempts[2].out = 503
    /\ attempts[3].out = 404
    /\ tResp.StatusCode = 404 /\ tErr = nil

(* C22: every attempt after the first is made with a request built for it: *)
(* its method, its URL and the keys and values of its header, in order,    *)
(* are those of the original request, and none of the slices of its header *)
(* is a slice of the original request or of an earlier attempt, so that    *)
(* the copy writes to nothing the original holds.                          *)
C22_RebuiltRequest ==
    \A j \in 2..Len(attempts) :
       /\ attempts[j].Method = tOrig.Method
       /\ attempts[j].URL = tOrig.URL
       /\ DOMAIN attempts[j].Header = DOMAIN tOrig.Header
       /\ \A k \in DOMAIN tOrig.Header :
             attempts[j].Header[k].vv = tOrig.Header[k].vv
       /\ \A e \in 1..(j - 1) : SlicesOf(j) \cap SlicesOf(e) = {}
       /\ attempts[1].Header = tOrig.Header

C22_Witness ==
    /\ tPc = "return" /\ Len(attempts) = 3
    /\ DOMAIN tOrig.Header = {"h", "g"}
    /\ tOrig.URL.Path # <<>>
    /\ attempts[3].Header["h"].vv = <<"v", "w">>

(* C25: when the read of the body of the original request fails, RoundTrip *)
(* returns that error and a nil response at once: the wrapped transport is *)
(* not called, then or later.                                              *)
C25_ReadFailure ==
    /\ [][(tPc = "ReadAll" /\ tErr' = "ReadAll")
             => (tPc' = "return" /\ tResp' = NilResponse /\ attempts' = <<>>)]_vars
    /\ [][tPc = "return" => UNCHANGED tvars]_vars

C25_Witness ==
    /\ tPc = "return" /\ tErr = "ReadAll"
    /\ tResp = NilResponse /\ attempts = <<>>
    /\ OrigBody # <<>> /\ maxTries > 1

----------------------------------------------------------------------------
\* The answer ServeHTTP owes to a request, given what the claim lets it
\* depend on.
Owed(wellFormed, full) ==
    IF ~wellFormed THEN 500 ELSE IF full THEN 503 ELSE 200

(* C24: once the process serves, every request gets its answer at once,    *)
(* whatever the workers did with this or earlier requests, and the answer  *)
(* depends only on the id being well formed and on the queue being full at *)
(* that moment: 500 for an id that is not well formed, 503 on a full       *)
(* queue, 200 otherwise, with the request still in the queue, not          *)
(* processed.                                                              *)
C24_AdmissionDecoupled ==
    /\ [](serving => \A form \in Forms : ENABLED ServeHTTP(form))
    /\ [][Served =>
             /\ w'[Len(w')].code = Owed(WellFormed(r'), Len(c) = queueSize)
             /\ w'[Len(w')].code = 200 =>
                   (c' # <<>> /\ c'[Len(c')].n = Len(w'))]_vars

(* C26: a request answered 503 or 500 is never in the queue and never in   *)
(* the hands of a worker: every request in the queue, every request        *)
(* received and every request a worker holds was answered 200.             *)
C26_OnlyAdmittedProcessed ==
    /\ \A k \in 1..Len(c) : w[c[k].n].code = 200
    /\ \A j \in 1..Len(dequeued) : w[DequeuedAt(j)].code = 200
    /\ \A p \in Procs : cur[p].n # 0 => w[cur[p].n].code = 200

C26_Witness ==
    /\ Len(w) = 3
    /\ w[1].code = 200 /\ w[2].code = 503 /\ w[3].code = 500
    /\ dequeued # <<>> /\ DequeuedAt(1) = 1
    /\ c = <<>>

----------------------------------------------------------------------------
\* s holds only slashes.
Slashes(s) == \A k \in 1..Len(s) : s[k] = "/"

\* s is d with the slashes at its two ends taken off.
Trimmed(d, s) ==
    /\ s # <<>> => (s[1] # "/" /\ s[Len(s)] # "/")
    /\ \E a, b \in 0..Len(d) :
          /\ a + Len(s) + b = Len(d)
          /\ Slashes(SubSeq(d, 1, a))
          /\ SubSeq(d, a + 1, a + Len(s)) = s
          /\ Slashes(SubSeq(d, a + Len(s) + 1, Len(d)))

\* name is base followed by ext, ext being the final extension of name:
\* empty when name has no dot, else from its last dot on.
SplitsAtExt(name, base, ext) ==
    /\ name = base \o ext
    /\ IF \A k \in 1..Len(name) : name[k] # "."
       THEN ext = <<>>
       ELSE ext # <<>> /\ ext[1] = "." /\ \A k \in 2..Len(ext) : ext[k] # "."

(* C23: for an id that reads bucket/object-name, getProcessImageReq gives  *)
(* no error; the object name is what follows the last slash of the id and  *)
(* the source bucket what precedes it (the directory part), the slashes at *)
(* its ends removed; the destination name is the object name with "-t"     *)
(* put right before its final extension, or at its end when it has none;   *)
(* the destination bucket is the save-to field as given.                   *)
C23_DerivedNames ==
    (aPc = "return" /\ WellFormed(aForm)) =>
       LET id == aForm["id"]
           q == aReq.req
       IN  /\ ~aReq.err
           /\ \E k \in 1..Len(id) :
                 /\ id[k] = "/"
                 /\ q.filename = SubSeq(id, k + 1, Len(id))
                 /\ \A j \in 1..Len(q.filename) : q.filename[j] # "/"
                 /\ Trimmed(SubSeq(id, 1, k), q.sourceBucket)
           /\ \E m \in 0..Len(q.filename) :
                 /\ SplitsAtExt(q.filename, SubSeq(q.filename, 1, m),
                                SubSeq(q.filename, m + 1, Len(q.filename)))
                 /\ q.saveToFilename =
                       SubSeq(q.filename, 1, m) \o <<"-", "t">>
                          \o SubSeq(q.filename, m + 1, Len(q.filename))
           /\ q.saveToBucket = aForm["save-to"]

C23_Witness ==
    /\ aPc = "return"
    /\ aForm = Form(<<"b", "/", "b", ".", "b">>, <<"d">>)
    /\ aReq.req.sourceBucket = <<"b">>
    /\ aReq.req.saveToFilename = <<"b", "-", "t", ".", "b">>

----------------------------------------------------------------------------
(* C27: transformImage returns an error when the POST to /process fails    *)
(* and when the backend answers with a status other than 200 (a 503 of a   *)
(* full queue included), and nil when the answer is 200 and its body can   *)
(* be read; the worker handler writes the status the backend answered.     *)
C27_RelayReportsRejection ==
    rlPc = "return" =>
       /\ rlFn = "transformImage" =>
             /\ (rlPostErr \/ rlResp.StatusCode # 200) => rlErr # nil
             /\ (~rlPostErr /\ rlResp.StatusCode = 200 /\ rlResp.readable)
                   => rlErr = nil
       /\ (rlFn = "worker" /\ ~rlPostErr) => rlW = rlResp.StatusCode

C27_Witness ==
    /\ rlPc = "return" /\ rlFn = "transformImage"
    /\ ~rlPostErr /\ rlResp.StatusCode = 503
    /\ rlErr # nil
    /\ rlValues = Form(<<"b", "/", "o", ".", "j">>, <<"s">>)

----------------------------------------------------------------------------
(* C28: copyObject of duplicate_files makes at most 3 Copy calls for an    *)
(* object, stops at the first that succeeds, and when all fail returns the *)
(* last error after exactly 3 calls.                                       *)
C28_ThreeTries ==
    \A o \in 1..MaxObjects :
       /\ dTries[o] <= 3
       /\ o \in dFailed => dTries[o] = 3

(* C29: generate_files never comes to a stop before main has returned,     *)
(* whatever copies fail: some goroutine can always go on; a request is     *)
(* reported at most once, on f only after 3 failed Copy calls and on       *)
(* finished only after a success, and when main returns every request was  *)
(* enqueued and reported, c and f are closed and every copier has exited.  *)
C29_GenerateTerminates ==
    /\ gMain \in {"for", "range"} => ENABLED GenNext
    /\ \A o \in GenRequests :
          /\ gOnF[o] + gOnFin[o] <= 1
          /\ gOnF[o] = 1 => gTries[o] = 3
          /\ gOnFin[o] = 1 => gTries[o] \in 1..3
    /\ gMain = "return" =>
          /\ gNext = GenFiles /\ gC = <<>>
          /\ \A o \in GenRequests : gOnF[o] + gOnFin[o] = 1
          /\ gCClosed /\ gFClosed
          /\ \A p \in GenProcs : gPc[p] = "done"

(* C30: duplicate_files ends for every pattern of failures: main returns;  *)
(* no object is handed to two copiers and at the end each was handed once; *)
(* the name of an object is reported on f at most once, only if its copy   *)
(* failed, and at the end the name of every failed object was reported; c  *)
(* is closed only after the last object, f only after every copier exited. *)
C30_DuplicateTerminates ==
    /\ <>(dMain = "return")
    /\ [](\A o \in 1..MaxObjects :
             /\ dHanded[o] <= 1
             /\ dReported[o] <= 1
             /\ dReported[o] = 1 => o \in dFailed)
    /\ [](dCClosed => dNext > dN)
    /\ [](dFClosed => \A p \in DupProcs : dPc[p] = "done")
    /\ [](dMain = "return" =>
             /\ \A o \in 1..dN : dHanded[o] = 1
             /\ \A o \in dFailed : dReported[o] = 1
             /\ dCClosed /\ dFClosed)

C30_Witness ==
    /\ dMain = "return"
    /\ dN = MaxObjects
    /\ dFailed # {} /\ dFailed # 1..dN
    /\ \A o \in dFailed : dReported[o] = 1

====
